---------------------------- MODULE Spec2Model ----------------------------
(***************************************************************************)
(* Courier route optimizer (app.py): one submitted run of the form.        *)
(* The run validates the credential and the location list, geocodes the    *)
(* names one at a time, substitutes the fallback pair when nothing was     *)
(* resolved, builds and inflates the distance matrix, builds the           *)
(* nearest-neighbour tour, sums distance and cost, and displays the        *)
(* result.                                                                 *)
(*                                                                         *)
(* Conventions.  A string is a sequence of characters.  A Python list is   *)
(* a sequence, read at a 0-based index i with At(list, i).  A coordinate   *)
(* is <<lat, lon>> in hundredths of a degree.  A variable that Python has  *)
(* not assigned yet holds <<>> (and a number is wrapped as <<v>> once it   *)
(* is assigned) or 0 for n.                                                *)
(***************************************************************************)
EXTENDS Integers, Sequences, FiniteSets, TLC

VARIABLES
    pc,              \* position in the main logic
    ors_key,         \* form field: credential
    loc_input,       \* form field: text area, raw text
    fuel_price,      \* form field
    fuel_eff,        \* form field
    traffic,         \* form field: slider, 0..MaxTraffic
    loc_names,       \* stripped non-blank lines
    requests,        \* provider side: texts of the lookups issued so far
    responses,       \* provider side: what each lookup returned or raised
    coords,          \* geocode_locations' local list
    gi,              \* geocode_locations' loop position in names
    points,          \* the coordinate list the matrix is built from
    dist,            \* distance matrix, [0..n-1 -> [0..n-1 -> Int]]
    n,               \* len(dist)
    cell,            \* inflation loop position, i*n + j
    route,           \* the tour
    visited,         \* set of indices in the tour
    selections,      \* iterations of the nearest-neighbour loop so far
    total_km,        \* <<>> or <<sum>>
    total_cost_val,  \* <<>> or <<numerator, denominator>>
    shown,           \* names of the displayed route, <<>> before display
    segments,        \* polylines drawn on the map, as index pairs
    messages,        \* st.error / st.warning / st.success calls, in order
    error            \* "" or the exception that ended the run

vars == <<pc, ors_key, loc_input, fuel_price, fuel_eff, traffic, loc_names,
          requests, responses, coords, gi, points, dist, n, cell, route,
          visited, selections, total_km, total_cost_val, shown, segments,
          messages, error>>

----------------------------------------------------------------------------
(* Bounds of the model.                                                    *)

\* Longest raw text of the location text area.
MaxInputLen == 5

\* Largest matrix of the stand-alone tour specification.
MaxN == 3

\* Largest entry of the matrices the stand-alone tour specification draws.
MaxDist == 1

----------------------------------------------------------------------------
(* Program constants.                                                      *)

\* Upper end of the traffic slider (1.0).
MaxTraffic == 1

\* Default of the fuel price field (130.0).
DefaultFuelPrice == 130

\* Default of the fuel efficiency field (15.0).
DefaultFuelEff == 15

\* (0, 0): the coordinate recorded for a name that was not resolved.
Sentinel == <<0, 0>>

\* Variant: a fallback list of three sample coordinates.
FallbackTriple == << <<1846, 7386>>, <<1850, 7393>>, <<1852, 7385>> >>

\* The fallback pair (18.4575, 73.8580), (18.5000, 73.9300), in hundredths.
FallbackPoints == << <<1846, 7386>>, <<1850, 7393>> >>

----------------------------------------------------------------------------
(* Python built-ins, as the interpreter computes them.                     *)

NL == "\n"

IsSpace(c) == c \in {" ", NL}

At(list, i) == list[i + 1]

Abs(x) == IF x < 0 THEN -x ELSE x

RECURSIVE LStrip(_)
LStrip(s) ==
    IF s = <<>> THEN s
    ELSE IF IsSpace(Head(s)) THEN LStrip(Tail(s)) ELSE s

RECURSIVE RStrip(_)
RStrip(s) ==
    IF s = <<>> THEN s
    ELSE IF IsSpace(s[Len(s)]) THEN RStrip(SubSeq(s, 1, Len(s) - 1)) ELSE s

\* str.strip()
Strip(s) == RStrip(LStrip(s))

\* str.splitlines(): a line ends at each newline; no empty last line.
RECURSIVE SplitFrom(_, _, _)
SplitFrom(s, cur, lines) ==
    IF s = <<>> THEN (IF cur = <<>> THEN lines ELSE Append(lines, cur))
    ELSE IF Head(s) = NL THEN SplitFrom(Tail(s), <<>>, Append(lines, cur))
    ELSE SplitFrom(Tail(s), Append(cur, Head(s)), lines)

SplitLines(s) == SplitFrom(s, <<>>, <<>>)

\* geopy's geodesic(p, q).km, stood in for by a metric on the grid: zero
\* exactly between equal coordinates, symmetric, non-negative.
Geodesic(p, q) == Abs(p[1] - q[1]) + Abs(p[2] - q[2])

RECURSIVE SumSeq(_)
SumSeq(s) == IF s = <<>> THEN 0 ELSE Head(s) + SumSeq(Tail(s))

----------------------------------------------------------------------------
(* Inputs.                                                                 *)

Chars == {" ", "a", NL}

RECURSIVE StringsUpTo(_)
StringsUpTo(k) ==
    IF k = 0 THEN {<<>>}
    ELSE LET shorter == StringsUpTo(k - 1)
         IN  shorter \cup {Append(s, c) : s \in {t \in shorter : Len(t) = k - 1}, c \in Chars}

Keys == {<<>>, <<" ">>, <<"k">>, <<" ", "k">>}

FuelEffs == {-1, 0, DefaultFuelEff}

\* Provider outcomes of one pelias_search: a raised failure, or a response
\* whose features carry GeoJSON [lon, lat] coordinates.
Responses ==
    { [raised |-> TRUE,  features |-> <<>>],
      [raised |-> FALSE, features |-> <<>>],
      [raised |-> FALSE, features |-> << <<7385, 1852>> >>],
      [raised |-> FALSE, features |-> << <<7288, 1908>>, <<7385, 1852>> >>] }

----------------------------------------------------------------------------
(* Helper functions of the program.                                        *)

\* Variant: the credential is compared without trimming.
KeyMissingUntrimmed(key) == key = <<>>

\* `not ors_key.strip()`
KeyMissing(key) == Strip(key) = <<>>

\* [l.strip() for l in loc_input.splitlines() if l.strip()]
ParseNames(text) ==
    LET kept == SelectSeq(SplitLines(text), LAMBDA l : Strip(l) # <<>>)
    IN  [k \in 1..Len(kept) |-> Strip(kept[k])]

\* len(loc_names) < 2
TooFewLocations(names) == Len(names) < 2

\* Variant: the except branch records nothing for the failed name.
GeocodeAppendDropsFailure(cs, res) ==
    IF res.raised THEN cs
    ELSE IF Len(res.features) > 0
         THEN Append(cs, <<res.features[1][2], res.features[1][1]>>)
         ELSE Append(cs, Sentinel)

\* One iteration of geocode_locations' loop body: the coordinate list after
\* the lookup ended with `res`.
GeocodeAppend(cs, res) ==
    IF res.raised THEN Append(cs, Sentinel)
    ELSE IF Len(res.features) > 0
         THEN Append(cs, <<res.features[1][2], res.features[1][1]>>)
         ELSE Append(cs, Sentinel)

\* The status geocode_locations emits for the lookup.
GeocodeStatus(res) ==
    IF res.raised THEN "error: geocoding"
    ELSE IF Len(res.features) > 0 THEN "success: found"
         ELSE "warning: not found"

\* Variant: any() in place of all().
UseFallbackOnAny(pts) ==
    pts = <<>> \/ \E k \in 1..Len(pts) : pts[k] = Sentinel

\* `not points or all(p == (0, 0) for p in points)`
UseFallback(pts) ==
    pts = <<>> \/ \A k \in 1..Len(pts) : pts[k] = Sentinel

\* points after the fallback check
PointsAfterFallback(pts) == IF UseFallback(pts) THEN FallbackPoints ELSE pts

\* Variant: the matrix is one row and one column short.
fallback_matrix_short(cs) ==
    LET m == Len(cs) - 1
    IN  [i \in 0..(m - 1) |->
            [j \in 0..(m - 1) |->
                IF i # j THEN Geodesic(At(cs, i), At(cs, j)) ELSE 0]]

fallback_matrix(cs) ==
    LET m == Len(cs)
    IN  [i \in 0..(m - 1) |->
            [j \in 0..(m - 1) |->
                IF i # j THEN Geodesic(At(cs, i), At(cs, j)) ELSE 0]]

\* Variant: the drawn value is added instead of scaling the entry.
InflateAdditive(d, u) == d + u

\* dist[i][j] *= (1 + random.uniform(0, traffic)), u the value drawn
Inflate(d, u) == d * (1 + u)

\* Variant: a candidate with an equal key replaces the best so far.
BetterOrEqual(candidateKey, bestKey) == candidateKey <= bestKey

\* The comparison min() makes between a candidate's key and the best key so
\* far: the candidate replaces the best only when strictly smaller.
Better(candidateKey, bestKey) == candidateKey < bestKey

\* min((j for j in range(n) if j not in visited), key=lambda j: dist[last][j])
\* as a scan in ascending j; -1 stands for the empty generator.
RECURSIVE MinScan(_, _, _, _, _, _)
MinScan(j, best, last, vis, d, m) ==
    IF j >= m THEN best
    ELSE IF j \in vis THEN MinScan(j + 1, best, last, vis, d, m)
    ELSE IF best = -1 \/ Better(d[last][j], d[last][best])
         THEN MinScan(j + 1, j, last, vis, d, m)
         ELSE MinScan(j + 1, best, last, vis, d, m)

NextCity(last, vis, d, m) == MinScan(0, -1, last, vis, d, m)

\* Variant: the loop stops one selection early.
MoreToVisitShort(r, m) == Len(r) + 1 < m

\* `while len(route) < n`
MoreToVisit(r, m) == Len(r) < m

\* zip(route[:-1], route[1:])
Edges(r) == [k \in 1..(Len(r) - 1) |-> <<r[k], r[k + 1]>>]

\* sum(dist[a][b] for a, b in zip(route[:-1], route[1:]))
TotalKm(d, r) == SumSeq([k \in 1..(Len(r) - 1) |-> d[r[k]][r[k + 1]]])

\* sum((dist[a][b] / fuel_eff) * fuel_price ...), kept exact as a fraction
\* <<numerator, denominator>>
TotalCost(d, r, price, eff) == <<TotalKm(d, r) * price, eff>>

\* Whether every index of the tour can be read from a list.
InRange(r, list) == \A k \in 1..Len(r) : r[k] >= 0 /\ r[k] < Len(list)

\* The segments draw_route_map draws: edges whose two ends are not (0, 0).
DrawnSegments(pts, r) ==
    SelectSeq(Edges(r),
              LAMBDA e : At(pts, e[1]) # Sentinel /\ At(pts, e[2]) # Sentinel)

----------------------------------------------------------------------------
(* The submitted run.                                                      *)

Idle ==
    /\ loc_names = <<>> /\ requests = <<>> /\ responses = <<>>
    /\ coords = <<>> /\ gi = 0 /\ points = <<>>
    /\ route = <<>> /\ visited = {} /\ selections = 0
    /\ total_km = <<>> /\ total_cost_val = <<>>
    /\ shown = <<>> /\ segments = <<>> /\ messages = <<>> /\ error = ""

Init ==
    /\ pc = "check_key"
    /\ ors_key \in Keys
    /\ loc_input \in StringsUpTo(MaxInputLen)
    /\ fuel_price = DefaultFuelPrice
    /\ fuel_eff \in FuelEffs
    /\ traffic \in 0..MaxTraffic
    /\ dist = <<>> /\ n = 0 /\ cell = 0
    /\ Idle

Inputs == <<ors_key, loc_input, fuel_price, fuel_eff, traffic>>

\* if not ors_key.strip(): st.error(...); st.stop()
CheckKey ==
    /\ pc = "check_key"
    /\ IF KeyMissing(ors_key)
       THEN /\ messages' = Append(messages, "error: key")
            /\ pc' = "stopped"
       ELSE /\ messages' = messages
            /\ pc' = "parse"
    /\ UNCHANGED <<Inputs, loc_names, requests, responses, coords, gi, points,
                   dist, n, cell, route, visited, selections, total_km,
                   total_cost_val, shown, segments, error>>

\* loc_names = [...]; if len(loc_names) < 2: st.warning(...); st.stop()
ParseLocations ==
    /\ pc = "parse"
    /\ loc_names' = ParseNames(loc_input)
    /\ IF TooFewLocations(loc_names')
       THEN /\ messages' = Append(messages, "warning: locations")
            /\ pc' = "stopped"
       ELSE /\ messages' = messages
            /\ pc' = "geocode"
    /\ UNCHANGED <<Inputs, requests, responses, coords, gi, points, dist, n,
                   cell, route, visited, selections, total_km, total_cost_val,
                   shown, segments, error>>

\* One iteration of `for name in names` with its lookup.
GeocodeOne ==
    /\ pc = "geocode"
    /\ gi < Len(loc_names)
    /\ \E res \in Responses :
          /\ requests' = Append(requests, At(loc_names, gi))
          /\ responses' = Append(responses, res)
          /\ coords' = GeocodeAppend(coords, res)
          /\ messages' = Append(messages, GeocodeStatus(res))
    /\ gi' = gi + 1
    /\ UNCHANGED <<pc, Inputs, loc_names, points, dist, n, cell, route,
                   visited, selections, total_km, total_cost_val, shown,
                   segments, error>>

\* return coords; points = geocode_locations(...)
GeocodeReturn ==
    /\ pc = "geocode"
    /\ gi >= Len(loc_names)
    /\ points' = coords
    /\ pc' = "fallback"
    /\ UNCHANGED <<Inputs, loc_names, requests, responses, coords, gi, dist, n,
                   cell, route, visited, selections, total_km, total_cost_val,
                   shown, segments, messages, error>>

\* if not points or all(...): st.warning(...); points = [fallback pair]
Fallback ==
    /\ pc = "fallback"
    /\ points' = PointsAfterFallback(points)
    /\ messages' = IF UseFallback(points)
                   THEN Append(messages, "warning: fallback")
                   ELSE messages
    /\ pc' = "matrix"
    /\ UNCHANGED <<Inputs, loc_names, requests, responses, coords, gi, dist, n,
                   cell, route, visited, selections, total_km, total_cost_val,
                   shown, segments, error>>

\* dist = fallback_matrix(points); n = len(dist)
BuildMatrix ==
    /\ pc = "matrix"
    /\ dist' = fallback_matrix(points)
    /\ n' = Cardinality(DOMAIN dist')
    /\ cell' = 0
    /\ pc' = IF n' = 0 THEN "nn_init" ELSE "inflate"
    /\ UNCHANGED <<Inputs, loc_names, requests, responses, coords, gi, points,
                   route, visited, selections, total_km, total_cost_val, shown,
                   segments, messages, error>>

\* One iteration of the inflation loops, at i = cell \div n, j = cell % n.
InflateCell ==
    /\ pc = "inflate"
    /\ cell < n * n
    /\ \E u \in 0..traffic :
          dist' = [dist EXCEPT ![cell \div n][cell % n] = Inflate(@, u)]
    /\ cell' = cell + 1
    /\ pc' = IF cell' = n * n THEN "nn_init" ELSE "inflate"
    /\ UNCHANGED <<Inputs, loc_names, requests, responses, coords, gi, points,
                   n, route, visited, selections, total_km, total_cost_val,
                   shown, segments, messages, error>>

\* route = [0]; visited = set(route)
StartRoute ==
    /\ pc = "nn_init"
    /\ route' = <<0>>
    /\ visited' = {0}
    /\ selections' = 0
    /\ pc' = "nn_loop"
    /\ UNCHANGED <<Inputs, loc_names, requests, responses, coords, gi, points,
                   dist, n, cell, total_km, total_cost_val, shown, segments,
                   messages, error>>

\* One iteration of `while len(route) < n`.
SelectNext ==
    /\ pc = "nn_loop"
    /\ MoreToVisit(route, n)
    /\ LET last == route[Len(route)]
           next_city == NextCity(last, visited, dist, n)
       IN  IF next_city = -1
           THEN /\ error' = "ValueError"
                /\ pc' = "crashed"
                /\ UNCHANGED <<route, visited, selections>>
           ELSE /\ route' = Append(route, next_city)
                /\ visited' = visited \cup {next_city}
                /\ selections' = selections + 1
                /\ UNCHANGED <<pc, error>>
    /\ UNCHANGED <<Inputs, loc_names, requests, responses, coords, gi, points,
                   dist, n, cell, total_km, total_cost_val, shown, segments,
                   messages>>

\* route.append(0)
CloseRoute ==
    /\ pc = "nn_loop"
    /\ ~MoreToVisit(route, n)
    /\ route' = Append(route, 0)
    /\ pc' = "total_km"
    /\ UNCHANGED <<Inputs, loc_names, requests, responses, coords, gi, points,
                   dist, n, cell, visited, selections, total_km,
                   total_cost_val, shown, segments, messages, error>>

\* total_km = sum(...)
SumDistance ==
    /\ pc = "total_km"
    /\ total_km' = <<TotalKm(dist, route)>>
    /\ pc' = "total_cost"
    /\ UNCHANGED <<Inputs, loc_names, requests, responses, coords, gi, points,
                   dist, n, cell, route, visited, selections, total_cost_val,
                   shown, segments, messages, error>>

\* total_cost_val = sum(...): the division raises when fuel_eff is zero.
SumCost ==
    /\ pc = "total_cost"
    /\ IF fuel_eff = 0
       THEN /\ error' = "ZeroDivisionError"
            /\ pc' = "crashed"
            /\ UNCHANGED total_cost_val
       ELSE /\ total_cost_val' = TotalCost(dist, route, fuel_price, fuel_eff)
            /\ pc' = "display"
            /\ UNCHANGED error
    /\ UNCHANGED <<Inputs, loc_names, requests, responses, coords, gi, points,
                   dist, n, cell, route, visited, selections, total_km, shown,
                   segments, messages>>

\* st.success(...); st.markdown(route names); st.metric(...) twice
Display ==
    /\ pc = "display"
    /\ messages' = Append(messages, "success: complete")
    /\ IF InRange(route, loc_names)
       THEN /\ shown' = [k \in 1..Len(route) |-> At(loc_names, route[k])]
            /\ pc' = "draw"
            /\ UNCHANGED error
       ELSE /\ error' = "IndexError"
            /\ pc' = "crashed"
            /\ UNCHANGED shown
    /\ UNCHANGED <<Inputs, loc_names, requests, responses, coords, gi, points,
                   dist, n, cell, route, visited, selections, total_km,
                   total_cost_val, segments>>

\* m = draw_route_map(points, route); st_folium(m, ...)
DrawMap ==
    /\ pc = "draw"
    /\ IF \A k \in 1..Len(points) : points[k] = Sentinel
       THEN /\ pc' = "done"
            /\ UNCHANGED <<segments, error>>
       ELSE IF InRange(route, points)
       THEN /\ segments' = DrawnSegments(points, route)
            /\ pc' = "done"
            /\ UNCHANGED error
       ELSE /\ error' = "IndexError"
            /\ pc' = "crashed"
            /\ UNCHANGED segments
    /\ UNCHANGED <<Inputs, loc_names, requests, responses, coords, gi, points,
                   dist, n, cell, route, visited, selections, total_km,
                   total_cost_val, shown, messages>>

Next ==
    \/ CheckKey
    \/ ParseLocations
    \/ GeocodeOne
    \/ GeocodeReturn
    \/ Fallback
    \/ BuildMatrix
    \/ InflateCell
    \/ StartRoute
    \/ SelectNext
    \/ CloseRoute
    \/ SumDistance
    \/ SumCost
    \/ Display
    \/ DrawMap

Spec == Init /\ [][Next]_vars

----------------------------------------------------------------------------
(* The tour construction alone, over every matrix of the bounded sizes.    *)

OffDiagonal(m) == {p \in (0..(m - 1)) \X (0..(m - 1)) : p[1] # p[2]}

\* The m x m matrix with entries f off the diagonal and dg along it (the
\* loop never reads the diagonal).
MatrixOf(m, f, dg) ==
    [i \in 0..(m - 1) |-> [j \in 0..(m - 1) |-> IF i = j THEN dg ELSE f[<<i, j>>]]]

InitTour ==
    /\ pc = "nn_init"
    /\ n \in 1..MaxN
    /\ \E f \in [OffDiagonal(n) -> 0..MaxDist], dg \in {0, MaxDist} :
          dist = MatrixOf(n, f, dg)
    /\ cell = n * n
    /\ ors_key = <<"k">> /\ loc_input = <<>>
    /\ fuel_price = DefaultFuelPrice /\ fuel_eff = DefaultFuelEff
    /\ traffic = 0
    /\ Idle

NextTour == StartRoute \/ SelectNext \/ CloseRoute

SpecTour == InitTour /\ [][NextTour]_vars

----------------------------------------------------------------------------
(* Vocabulary of the properties, stated from the inputs and the provider's *)
(* answers rather than from the program's own helpers.                     *)

\* The credential holds a character that is not white space.
CredentialGiven == \E k \in 1..Len(ors_key) : ~IsSpace(ors_key[k])

\* Position i of the text is the first non-blank character of its line.
StartsName(text, i) ==
    /\ ~IsSpace(text[i])
    /\ \A j \in 1..(i - 1) :
          ~IsSpace(text[j]) => \E m \in (j + 1)..(i - 1) : text[m] = NL

\* Number of lines of the text area that are not blank.
NonBlankLines(text) == Cardinality({i \in 1..Len(text) : StartsName(text, i)})

EnoughLocations == NonBlankLines(loc_input) >= 2

\* The lookup gave no coordinate: it raised, or returned no candidate.
Unresolved(res) == res.raised \/ res.features = <<>>

\* The coordinate a lookup stands for: the first candidate's (lat, lon),
\* or the sentinel.
CoordinateOf(res) ==
    IF Unresolved(res) THEN Sentinel
    ELSE LET lonlat == Head(res.features) IN <<lonlat[2], lonlat[1]>>

\* Every name of the run was looked up and none was resolved.
AllUnresolved ==
    /\ Len(responses) = Len(loc_names)
    /\ \A k \in 1..Len(responses) : Unresolved(responses[k])

\* Nothing past validation has happened.
NothingComputed ==
    /\ requests = <<>> /\ responses = <<>> /\ coords = <<>> /\ points = <<>>
    /\ dist = <<>> /\ n = 0 /\ route = <<>>
    /\ total_km = <<>> /\ total_cost_val = <<>> /\ shown = <<>>

GeocodeReturned ==
    pc \in {"fallback", "matrix", "inflate", "nn_init", "nn_loop", "total_km",
            "total_cost", "display", "draw", "done", "crashed"}

FallbackDecided == GeocodeReturned /\ pc # "fallback"

TourClosed ==
    \/ pc \in {"total_km", "total_cost", "display", "draw", "done"}
    \/ pc = "crashed" /\ error \in {"ZeroDivisionError", "IndexError"}

----------------------------------------------------------------------------
(* Properties.                                                             *)

\* C1: for every n >= 1 and every matrix, the closed tour has length n+1,
\* starts and ends at 0, holds every index of 0..n-1 exactly once among its
\* first n positions, and was built by exactly n-1 selections; the loop
\* never fails to find a next index.
C1_TourVisitsEveryIndexOnce ==
    /\ error = ""
    /\ pc = "total_km" =>
          /\ Len(route) = n + 1
          /\ route[1] = 0
          /\ route[n + 1] = 0
          /\ {route[k] : k \in 1..n} = 0..(n - 1)
          /\ \A a, b \in 1..n : a # b => route[a] # route[b]
          /\ selections = n - 1

\* C1 witness: a closed tour over the largest matrix that does not visit
\* the indices in ascending order.
C1_Witness ==
    /\ pc = "total_km"
    /\ n = MaxN
    /\ route[2] # 1
    /\ selections = n - 1

\* C2: every index the loop appended is unvisited at that moment, minimises
\* the entry of the last index's row over the unvisited indices, and is the
\* smallest index among those that reach the minimum.
C2_NearestUnvisitedSmallestIndex ==
    \A p \in 2..Len(route) :
        p <= n =>
            LET last == route[p - 1]
                seen == {route[k] : k \in 1..(p - 1)}
                j    == route[p]
            IN  /\ j \in (0..(n - 1)) \ seen
                /\ \A k \in (0..(n - 1)) \ seen :
                      /\ dist[last][j] <= dist[last][k]
                      /\ dist[last][k] = dist[last][j] => j <= k

\* C2 witness: indices 1 and 2 tie for the minimum of row 0, and 1 is
\* visited before 2.
C2_Witness ==
    /\ n = 3
    /\ Len(route) >= 3
    /\ dist[0][1] = dist[0][2]
    /\ route[2] = 1
    /\ route[3] = 2

\* C3: geocode_locations returns one coordinate per name, in the order of
\* the names: the sentinel for a name whose lookup raised or found nothing,
\* the first candidate's (lat, lon) otherwise; and every name is looked up,
\* whatever happened to the names before it.
C3_GeocodeKeepsLengthAndOrder ==
    /\ pc = "geocode" =>
          /\ Len(coords) = gi
          /\ Len(responses) = gi
          /\ requests = SubSeq(loc_names, 1, gi)
    /\ GeocodeReturned =>
          /\ requests = loc_names
          /\ Len(coords) = Len(loc_names)
          /\ \A k \in 1..Len(coords) : coords[k] = CoordinateOf(responses[k])
    /\ pc = "fallback" => points = coords

\* C3 witness: a returned batch in which a lookup raised and the next name
\* was still looked up and resolved.
C3_Witness ==
    /\ pc = "fallback"
    /\ \E k \in 1..(Len(responses) - 1) :
          /\ responses[k].raised
          /\ ~Unresolved(responses[k + 1])
          /\ coords[k] = Sentinel
          /\ coords[k + 1] # Sentinel

\* C4: with a zero or negative fuel efficiency the run fails before any
\* lookup, matrix, tour or total, and reports no result.
C4_NonPositiveEfficiencyFailsFast ==
    fuel_eff <= 0 => NothingComputed /\ pc \in {"check_key", "parse", "stopped"}

\* C5: a lookup is issued, or a matrix, tour or total computed, only when
\* the credential is non-empty after trimming and the text holds at least
\* two non-blank names; a run failing either check stops at that check with
\* that check's message, having computed nothing.
C5_ValidationBeforePipeline ==
    /\ ~NothingComputed => CredentialGiven /\ EnoughLocations
    /\ (pc # "check_key" /\ ~CredentialGiven) =>
          /\ pc = "stopped"
          /\ messages = <<"error: key">>
          /\ loc_names = <<>>
    /\ (pc \notin {"check_key", "parse"} /\ CredentialGiven /\ ~EnoughLocations) =>
          /\ pc = "stopped"
          /\ messages = <<"warning: locations">>
    /\ pc = "stopped" => NothingComputed /\ ~(CredentialGiven /\ EnoughLocations)
    /\ pc \notin {"check_key", "parse", "stopped"} =>
          Len(loc_names) = NonBlankLines(loc_input)

\* C5 witness: a credential with white space around it passes, and the run
\* stops at the location check on a text of several lines with one name.
C5_Witness ==
    /\ pc = "stopped"
    /\ ors_key = <<" ", "k">>
    /\ Len(SplitLines(loc_input)) >= 2
    /\ Len(loc_names) = 1
    /\ messages = <<"warning: locations">>

\* C6: when no name was resolved the points are the fallback pair and the
\* tour is [0, 1, 0], whatever the number of names, and the run is not
\* aborted by the fallback (it can end early only in the division by a zero
\* fuel efficiency); when some name was resolved the points are the
\* resolved list, unchanged.
C6_FallbackPairWhenAllUnresolved ==
    /\ FallbackDecided /\ AllUnresolved =>
          /\ points = FallbackPoints
          /\ TourClosed => route = <<0, 1, 0>>
          /\ pc = "crashed" => error = "ZeroDivisionError" /\ fuel_eff = 0
    /\ FallbackDecided /\ ~AllUnresolved =>
          /\ points = coords
          /\ \A k \in 1..Len(points) : points[k] = CoordinateOf(responses[k])

\* C6 witness: three names, none resolved, and the run reached its end
\* with the fallback pair and the tour [0, 1, 0].
C6_Witness ==
    /\ pc = "done"
    /\ Len(loc_names) = 3
    /\ AllUnresolved
    /\ points = FallbackPoints
    /\ route = <<0, 1, 0>>

\* C7 as stated: once the matrix is built, its dimension is the number of
\* input locations.
C7_MatrixSizeIsLocationCount ==
    n # 0 => n = Len(loc_names)

\* C7 amended: once the matrix is built, its dimension is the number of
\* input locations when some name was resolved, and 2 when none was.
C7_MatrixSizeUnlessFallback ==
    n # 0 =>
        /\ n = IF AllUnresolved THEN 2 ELSE Len(loc_names)
        /\ DOMAIN dist = 0..(n - 1)
        /\ \A i \in DOMAIN dist : DOMAIN dist[i] = 0..(n - 1)

\* C7 witness: three names, none resolved, and a 2 x 2 matrix.
C7_Witness ==
    /\ n = 2
    /\ Len(loc_names) = 3
    /\ AllUnresolved
    /\ DOMAIN dist = 0..1

\* C8: when some but not all names are unresolved, no edge summed into the
\* total distance has the sentinel coordinate at either end.
C8_NoSentinelInTotals ==
    (total_km # <<>> /\ ~AllUnresolved) =>
        \A k \in 1..(Len(route) - 1) :
            /\ At(points, route[k]) # Sentinel
            /\ At(points, route[k + 1]) # Sentinel

\* C9: the matrix has a zero diagonal and no negative entry, before, during
\* and after the inflation of every entry.
C9_ZeroDiagonalNonNegative ==
    \A i \in DOMAIN dist :
        /\ dist[i][i] = 0
        /\ \A j \in DOMAIN dist[i] : dist[i][j] >= 0

\* C9 witness: inflation is over at the top traffic level and an entry off
\* the diagonal was scaled up.
C9_Witness ==
    /\ pc = "nn_init"
    /\ traffic = MaxTraffic
    /\ cell = n * n
    /\ \E i, j \in DOMAIN dist :
          /\ i # j
          /\ dist[i][j] > Geodesic(At(points, i), At(points, j))
          /\ dist[i][i] = 0

\* C10: from the display on, every index of the tour is an index of the
\* name list and of the point list, and no read of either list fails.
C10_TourIndexesInRange ==
    /\ error # "IndexError"
    /\ pc \in {"display", "draw", "done"} =>
          \A k \in 1..Len(route) :
              /\ route[k] \in 0..(Len(loc_names) - 1)
              /\ route[k] \in 0..(Len(points) - 1)

\* C10 witness: three names over the two fallback points, displayed and
\* drawn.
C10_Witness ==
    /\ pc = "done"
    /\ Len(loc_names) = 3
    /\ Len(points) = 2
    /\ Len(shown) = Len(route)
    /\ segments = <<<<0, 1>>, <<1, 0>>>>

============================================================================
